---------------------------- MODULE Spec2Model ----------------------------
(***************************************************************************)
(* PHI protection subsystem of cognisync: field cipher (encrypted_db.py),  *)
(* file cipher (file_encryption.py), secure eraser and retention manager   *)
(* (data_retention.py), audit trail (audit_logger.py) and session guard    *)
(* (mfa_auth.py).                                                          *)
(*                                                                         *)
(* Python values are records [tag, v]: tag "none" is None, "str" a text    *)
(* (a sequence of code points or of base64 symbols), "bytes" a byte        *)
(* sequence, "raise" an exception that left the function.                  *)
(***************************************************************************)
EXTENDS Integers, Sequences, FiniteSets, TLC

VARIABLES
    \* ---- field cipher (EncryptedDatabase) ----
    fernet_key,     \* self.encryption_key / self.fernet of the running process
    f_plain,        \* the value last handed to encrypt_field
    f_stored,       \* the encrypted text held in a *_encrypted column
    f_skey,         \* the key f_stored was encrypted under (0: nothing stored)
    f_damaged,      \* f_stored is no longer the text encrypt_field returned
    f_result,       \* what the last decrypt_field call returned ("unset" before any)
    \* ---- file cipher (FileEncryption) ----
    aes_key,        \* self.aes_key of the running process
    fsys,           \* the upload directory: path -> file content or NoFile
    enc_of,         \* path -> what encrypt_file read to write it, and under which key
    file_last,      \* the last call on the upload directory: [op, arg, out, ret, removed]
    \* ---- the store: database connection, upload files, clock ----
    now,            \* datetime.now()
    db_conn,        \* the tables as self.db.conn sees them (uncommitted changes included)
    db_disk,        \* the tables as committed
    files,          \* session id -> state of the file its file pointer names
    ingested,       \* the session ids given out so far
    last,           \* the last call on the store: [op, sid, ret, log]
    \* ---- a delete_session call in progress, and a concurrent reader ----
    deleter,        \* where the call stands: [pc, sid, file_path, audit_logger, log]
    observed,       \* what the reader last saw of a session: [sid, row, file]
    \* ---- the environment of the server ----
    utc_offset      \* local time minus UTC, in ticks of the clock

field_vars == <<fernet_key, f_plain, f_stored, f_skey, f_damaged, f_result>>
file_vars == <<aes_key, fsys, enc_of, file_last>>
store_vars == <<now, db_conn, db_disk, files, ingested, last>>
step_vars == <<deleter, observed>>
env_vars == <<utc_offset>>

vars == <<field_vars, file_vars, store_vars, step_vars, env_vars>>

\* what the operations of one component leave alone
not_field == <<file_vars, store_vars, step_vars, env_vars>>
not_file == <<field_vars, store_vars, step_vars, env_vars>>
not_store == <<field_vars, file_vars, step_vars, env_vars>>

-----------------------------------------------------------------------------
(* Bounds of the model *)

MaxTextLen == 2

(* Program constants *)

BlockSize == 16

-----------------------------------------------------------------------------
(* Python values *)

None == [tag |-> "none", v |-> <<>>]
Unset == [tag |-> "unset", v |-> <<>>]
Raised == [tag |-> "raise", v |-> <<>>]
Str(s) == [tag |-> "str", v |-> s]
Bytes(b) == [tag |-> "bytes", v |-> b]

Keys == {1, 2}
\* 'A' (one UTF-8 byte) and U+00E9 (two UTF-8 bytes)
Chars == {65, 233}
Texts == UNION {[1..n -> Chars] : n \in 0..MaxTextLen}
\* outcomes of os.urandom(16) the model draws from
IvSeeds == {0, 3}

-----------------------------------------------------------------------------
(* str.encode() / bytes.decode(): UTF-8 *)

RECURSIVE UTF8Encode(_)
UTF8Encode(s) ==
    IF s = <<>> THEN <<>>
    ELSE LET c == Head(s)
         IN  (IF c < 128 THEN <<c>>
              ELSE <<192 + (c \div 64), 128 + (c % 64)>>) \o UTF8Encode(Tail(s))

\* a decode that takes every byte for one character (latin-1)
UTF8DecodeLatin1(b) == [ok |-> TRUE, v |-> b]

\* bytes.decode(): [ok, v]; ok is FALSE where Python raises UnicodeDecodeError
RECURSIVE UTF8Decode(_)
UTF8Decode(b) ==
    IF b = <<>> THEN [ok |-> TRUE, v |-> <<>>]
    ELSE LET b1 == Head(b)
         IN  IF b1 < 128
             THEN LET r == UTF8Decode(Tail(b))
                  IN  [ok |-> r.ok, v |-> <<b1>> \o r.v]
             ELSE IF b1 >= 194 /\ b1 < 224 /\ Len(b) >= 2
                     /\ b[2] >= 128 /\ b[2] < 192
             THEN LET r == UTF8Decode(Tail(Tail(b)))
                  IN  [ok |-> r.ok, v |-> <<(b1 - 192) * 64 + (b[2] - 128)>> \o r.v]
             ELSE [ok |-> FALSE, v |-> <<>>]

-----------------------------------------------------------------------------
(* PKCS7(128) and AES-CBC as the cryptography library applies them. The    *)
(* block cipher is a keyed byte permutation; CBC chains each block with    *)
(* the previous ciphertext block (addition mod 256 stands for XOR).        *)

KeyByte(k, j) == (k * 37 + ((j - 1) % BlockSize) * 11) % 256

Iv(seed) == [j \in 1..BlockSize |-> (seed * 7 + j) % 256]

\* a padder that adds nothing to data that already fills its last block
PKCS7PadUnlessAligned(data) ==
    LET n == (BlockSize - (Len(data) % BlockSize)) % BlockSize
    IN  data \o [j \in 1..n |-> n]

PKCS7Pad(data) ==
    LET n == BlockSize - (Len(data) % BlockSize)
    IN  data \o [j \in 1..n |-> n]

\* [ok, v]; ok is FALSE where unpadder.finalize() raises ValueError
PKCS7Unpad(p) ==
    IF Len(p) = 0 \/ Len(p) % BlockSize # 0 THEN [ok |-> FALSE, v |-> <<>>]
    ELSE LET n == p[Len(p)]
         IN  IF n < 1 \/ n > BlockSize
                \/ \E j \in (Len(p) - n + 1)..Len(p) : p[j] # n
             THEN [ok |-> FALSE, v |-> <<>>]
             ELSE [ok |-> TRUE, v |-> SubSeq(p, 1, Len(p) - n)]

CBCEncrypt(k, iv, padded) ==
    LET c[j \in 1..Len(padded)] ==
            LET prev == IF j <= BlockSize THEN iv[j] ELSE c[j - BlockSize]
            IN  (padded[j] + prev + KeyByte(k, j)) % 256
    IN  [j \in 1..Len(padded) |-> c[j]]

\* [ok, v]; ok is FALSE where decryptor.finalize() raises (length not a
\* multiple of the block size)
CBCDecrypt(k, iv, ct) ==
    IF Len(ct) % BlockSize # 0 THEN [ok |-> FALSE, v |-> <<>>]
    ELSE [ok |-> TRUE,
          v |-> [j \in 1..Len(ct) |->
                    LET prev == IF j <= BlockSize THEN iv[j] ELSE ct[j - BlockSize]
                    IN  (ct[j] - KeyByte(k, j) - prev + 512) % 256]]

-----------------------------------------------------------------------------
(* Fernet: version byte, IV, AES-CBC ciphertext of the PKCS7-padded data,  *)
(* and a keyed tag over all of it (the timestamp field is left out).       *)

TagLen == 2

\* the sum of i * b[i] over lo..hi
RECURSIVE WeightedSum(_, _, _)
WeightedSum(b, lo, hi) ==
    IF lo > hi THEN 0
    ELSE IF lo = hi THEN lo * b[lo]
    ELSE LET mid == (lo + hi) \div 2
         IN  WeightedSum(b, lo, mid) + WeightedSum(b, mid + 1, hi)

Mac(k, body) ==
    LET h == (k * 7919 + Len(body) * 263 + WeightedSum(body, 1, Len(body))) % 65521
    IN  <<h \div 256, h % 256>>

FernetEncrypt(k, iv, data) ==
    LET body == <<128>> \o iv \o CBCEncrypt(k, iv, PKCS7Pad(data))
    IN  body \o Mac(k, body)

\* [ok, v]; ok is FALSE where Fernet.decrypt raises InvalidToken
FernetDecrypt(k, token) ==
    IF Len(token) < 1 + BlockSize + TagLen \/ token[1] # 128
    THEN [ok |-> FALSE, v |-> <<>>]
    ELSE LET body == SubSeq(token, 1, Len(token) - TagLen)
             tag  == SubSeq(token, Len(token) - TagLen + 1, Len(token))
             iv   == SubSeq(body, 2, 1 + BlockSize)
             ct   == SubSeq(body, 2 + BlockSize, Len(body))
         IN  IF tag # Mac(k, body) THEN [ok |-> FALSE, v |-> <<>>]
             ELSE LET p == CBCDecrypt(k, iv, ct)
                  IN  IF ~p.ok THEN [ok |-> FALSE, v |-> <<>>]
                      ELSE PKCS7Unpad(p.v)

-----------------------------------------------------------------------------
(* base64: a text is a sequence of symbols, 0..63 the alphabet, PadSym     *)
(* the '=' and JunkSym any character outside the alphabet.                 *)

PadSym == 64
JunkSym == 65

RECURSIVE B64Encode(_)
B64Encode(b) ==
    IF Len(b) = 0 THEN <<>>
    ELSE IF Len(b) = 1
    THEN <<b[1] \div 4, (b[1] % 4) * 16, PadSym, PadSym>>
    ELSE IF Len(b) = 2
    THEN <<b[1] \div 4, (b[1] % 4) * 16 + (b[2] \div 16), (b[2] % 16) * 4, PadSym>>
    ELSE <<b[1] \div 4, (b[1] % 4) * 16 + (b[2] \div 16),
           (b[2] % 16) * 4 + (b[3] \div 64), b[3] % 64>>
         \o B64Encode(SubSeq(b, 4, Len(b)))

\* binascii.a2b_base64 without strict mode, which b64decode calls when
\* validate is left False: characters outside the alphabet are skipped and
\* a completed pad sequence ends the parse. B64Step is one turn of its
\* loop, on the character ch.
B64Step(st, ch) ==
    IF st.done THEN st
    ELSE CASE ch = PadSym ->
                  IF st.quad_pos >= 2 /\ st.quad_pos + st.pads + 1 >= 4
                  THEN [st EXCEPT !.done = TRUE]
                  ELSE [st EXCEPT !.pads = IF st.quad_pos >= 2 THEN @ + 1 ELSE @]
           [] ch > PadSym -> st
           [] ch < PadSym /\ st.quad_pos = 0 ->
                  [st EXCEPT !.quad_pos = 1, !.pads = 0, !.leftchar = ch]
           [] ch < PadSym /\ st.quad_pos = 1 ->
                  [st EXCEPT !.quad_pos = 2, !.pads = 0, !.leftchar = ch % 16,
                             !.out = Append(@, st.leftchar * 4 + (ch \div 16))]
           [] ch < PadSym /\ st.quad_pos = 2 ->
                  [st EXCEPT !.quad_pos = 3, !.pads = 0, !.leftchar = ch % 4,
                             !.out = Append(@, st.leftchar * 16 + (ch \div 4))]
           [] ch < PadSym /\ st.quad_pos = 3 ->
                  [st EXCEPT !.quad_pos = 0, !.pads = 0, !.leftchar = 0,
                             !.out = Append(@, st.leftchar * 64 + ch)]

\* the scan of t[lo..hi], left to right, from the state st
RECURSIVE B64Scan(_, _, _, _)
B64Scan(t, lo, hi, st) ==
    IF lo > hi THEN st
    ELSE IF lo = hi THEN B64Step(st, t[lo])
    ELSE LET mid == (lo + hi) \div 2
             left == B64Scan(t, lo, mid, st)
         IN  IF left.done THEN left ELSE B64Scan(t, mid + 1, hi, left)

\* [ok, v]; ok is FALSE where b64decode raises binascii.Error
B64Decode(t) ==
    LET st == B64Scan(t, 1, Len(t),
                      [quad_pos |-> 0, pads |-> 0, leftchar |-> 0, out |-> <<>>,
                       done |-> FALSE])
    IN  [ok |-> st.done \/ st.quad_pos = 0, v |-> st.out]

-----------------------------------------------------------------------------
(* EncryptedDatabase.encrypt_field / decrypt_field *)

encrypt_field(k, data, seed) ==
    IF data = None THEN None
    ELSE LET raw == IF data.tag = "str" THEN UTF8Encode(data.v) ELSE data.v
         IN  Str(B64Encode(FernetEncrypt(k, Iv(seed), raw)))

decrypt_field(k, encrypted_data) ==
    IF encrypted_data = None THEN None
    ELSE LET d == B64Decode(encrypted_data.v)
         IN  IF ~d.ok THEN None
             ELSE LET t == FernetDecrypt(k, d.v)
                  IN  IF ~t.ok THEN None
                      ELSE LET u == UTF8Decode(t.v)
                           IN  IF ~u.ok THEN None ELSE Str(u.v)

-----------------------------------------------------------------------------
(* Field cipher: operations on one encrypted column value *)

FieldInit ==
    /\ fernet_key \in Keys
    /\ f_plain = None
    /\ f_stored = None
    /\ f_skey = 0
    /\ f_damaged = FALSE
    /\ f_result = Unset

\* a caller encrypts a value and stores it
EncryptField ==
    \E t \in Texts, seed \in IvSeeds :
        /\ f_plain' = Str(t)
        /\ f_stored' = encrypt_field(fernet_key, Str(t), seed)
        /\ f_skey' = fernet_key
        /\ f_damaged' = FALSE
        /\ f_result' = Unset
        /\ UNCHANGED <<fernet_key, not_field>>

\* encrypt_field(None): absence passes through
EncryptNone ==
    /\ f_plain' = None
    /\ f_stored' = encrypt_field(fernet_key, None, 0)
    /\ f_skey' = 0
    /\ f_damaged' = FALSE
    /\ f_result' = Unset
    /\ UNCHANGED <<fernet_key, not_field>>

\* the process starts again with another key (no DB_ENCRYPTION_KEY in the
\* environment: a new key is generated); stored values stay as they are
RestartWithKey ==
    \E k \in Keys \ {fernet_key} :
        /\ fernet_key' = k
        /\ f_result' = Unset
        /\ UNCHANGED <<f_plain, f_stored, f_skey, f_damaged, not_field>>

\* the stored text is damaged: cut short, one symbol changed, or a
\* character outside the base64 alphabet put in
Truncate ==
    /\ f_stored # None /\ ~f_damaged
    /\ \E n \in 1..3 :
        /\ n <= Len(f_stored.v)
        /\ f_stored' = Str(SubSeq(f_stored.v, 1, Len(f_stored.v) - n))
    /\ f_damaged' = TRUE
    /\ f_result' = Unset
    /\ UNCHANGED <<fernet_key, f_plain, f_skey, not_field>>

Substitute ==
    /\ f_stored # None /\ ~f_damaged
    /\ \E i \in 1..Len(f_stored.v) :
        /\ f_stored.v[i] < 64
        /\ f_stored' = Str([f_stored.v EXCEPT ![i] = (@ + 1) % 64])
    /\ f_damaged' = TRUE
    /\ f_result' = Unset
    /\ UNCHANGED <<fernet_key, f_plain, f_skey, not_field>>

InsertJunk ==
    /\ f_stored # None /\ ~f_damaged
    /\ \E i \in 0..Len(f_stored.v) :
        f_stored' = Str(SubSeq(f_stored.v, 1, i) \o <<JunkSym>>
                        \o SubSeq(f_stored.v, i + 1, Len(f_stored.v)))
    /\ f_damaged' = TRUE
    /\ f_result' = Unset
    /\ UNCHANGED <<fernet_key, f_plain, f_skey, not_field>>

\* a caller reads the column back
DecryptField ==
    /\ f_result' = decrypt_field(fernet_key, f_stored)
    /\ UNCHANGED <<fernet_key, f_plain, f_stored, f_skey, f_damaged, not_field>>

FieldNext ==
    \/ EncryptField
    \/ EncryptNone
    \/ RestartWithKey
    \/ Truncate
    \/ Substitute
    \/ InsertJunk
    \/ DecryptField

-----------------------------------------------------------------------------
(* File cipher: FileEncryption.encrypt_file / decrypt_file                 *)
(* A path is its name followed by the suffixes appended to it.             *)

MaxFileLen == 33

NoFile == [tag |-> "nofile", v |-> <<>>]
AudioPath == <<"audio">>
Suffixes == {".encrypted", ".decrypted"}
FPaths == {AudioPath} \cup {AudioPath \o <<x>> : x \in Suffixes}

\* what an upload may hold: n bytes, byte i being fill + i * stride
FillBytes == {1, 16, 200}
Content(n, fill, stride) == [i \in 1..n |-> (fill + i * stride) % 256]

\* output_path when the caller gives none
EncryptedPath(input_path) == Append(input_path, ".encrypted")
DecryptedPath(input_path) ==
    IF input_path[Len(input_path)] = ".encrypted"
    THEN SubSeq(input_path, 1, Len(input_path) - 1)
    ELSE Append(input_path, ".decrypted")

\* the bytes encrypt_file writes for a plaintext: IV || ciphertext
EncryptBytes(k, iv, plaintext) == iv \o CBCEncrypt(k, iv, PKCS7Pad(plaintext))

\* data[lo-1:hi] of Python: a slice never fails, it is cut to what is there
PySlice(s, lo, hi) ==
    LET top == IF hi < Len(s) THEN hi ELSE Len(s)
    IN  IF lo > top THEN <<>> ELSE SubSeq(s, lo, top)

\* a decrypt that writes the padded data as it comes out of the cipher
DecryptBytesKeepPadding(k, data) ==
    LET iv == PySlice(data, 1, BlockSize)
        ciphertext == PySlice(data, BlockSize + 1, Len(data))
    IN  IF Len(iv) # BlockSize THEN [ok |-> FALSE, v |-> <<>>]
        ELSE CBCDecrypt(k, iv, ciphertext)

\* [ok, v]: the bytes decrypt_file writes, ok FALSE where it raises
DecryptBytes(k, data) ==
    LET iv == PySlice(data, 1, BlockSize)
        ciphertext == PySlice(data, BlockSize + 1, Len(data))
    IN  IF Len(iv) # BlockSize THEN [ok |-> FALSE, v |-> <<>>]
        ELSE LET p == CBCDecrypt(k, iv, ciphertext)
             IN  IF ~p.ok THEN [ok |-> FALSE, v |-> <<>>] ELSE PKCS7Unpad(p.v)

\* encrypt_file(input_path): [fs, ret]. The input is read whole before the
\* output is opened; a write that fails leaves the output cut short, and the
\* exception is raised again.
encrypt_file(fs, k, input_path, seed, fault) ==
    LET output_path == EncryptedPath(input_path)
    IN  IF fs[input_path] = NoFile
        THEN [fs |-> fs, ret |-> Raised]
        ELSE LET out == EncryptBytes(k, Iv(seed), fs[input_path].v)
             IN  IF fault = "write"
                 THEN [fs |-> [fs EXCEPT ![output_path] =
                                  Bytes(PySlice(out, 1, Len(out) \div 2))],
                       ret |-> Raised]
                 ELSE [fs |-> [fs EXCEPT ![output_path] = Bytes(out)],
                       ret |-> Str(output_path)]

\* a decrypt_file that opens its output before it has decrypted anything
decrypt_file_output_first(fs, k, input_path) ==
    LET output_path == DecryptedPath(input_path)
    IN  IF fs[input_path] = NoFile
        THEN [fs |-> fs, ret |-> Raised]
        ELSE LET d == DecryptBytes(k, fs[input_path].v)
             IN  IF ~d.ok
                 THEN [fs |-> [fs EXCEPT ![output_path] = Bytes(<<>>)], ret |-> Raised]
                 ELSE [fs |-> [fs EXCEPT ![output_path] = Bytes(d.v)],
                       ret |-> Str(output_path)]

\* decrypt_file(input_path): [fs, ret]
decrypt_file(fs, k, input_path) ==
    LET output_path == DecryptedPath(input_path)
    IN  IF fs[input_path] = NoFile
        THEN [fs |-> fs, ret |-> Raised]
        ELSE LET d == DecryptBytes(k, fs[input_path].v)
             IN  IF ~d.ok THEN [fs |-> fs, ret |-> Raised]
                 ELSE [fs |-> [fs EXCEPT ![output_path] = Bytes(d.v)],
                       ret |-> Str(output_path)]

\* what can go wrong in one encrypt_and_replace call: the write of the
\* encrypted file, os.remove of the original, os.rename
ReplaceFaults == {"write", "remove", "rename"}

\* a file taken off the file system: at which path, and by which call
Removal(path, by) == [path |-> path, by |-> by]

\* encrypt_and_replace(file_path): [fs, ret, removed]. The file is encrypted
\* next to itself, the original is removed with os.remove, and the encrypted
\* file is renamed to the name of the original; no step is guarded, so an
\* exception leaves the directory as the steps before it made it.
encrypt_and_replace(fs, k, file_path, seed, fault) ==
    LET e == encrypt_file(fs, k, file_path, seed, fault)
        encrypted_path == EncryptedPath(file_path)
        removed == [e.fs EXCEPT ![file_path] = NoFile]
    IN  IF e.ret = Raised THEN [fs |-> e.fs, ret |-> Raised, removed |-> {}]
        ELSE IF fault = "remove" THEN [fs |-> e.fs, ret |-> Raised, removed |-> {}]
        ELSE IF fault = "rename"
        THEN [fs |-> removed, ret |-> Raised,
              removed |-> {Removal(file_path, "os.remove")}]
        ELSE [fs |-> [removed EXCEPT ![file_path] = e.fs[encrypted_path],
                                     ![encrypted_path] = NoFile],
              ret |-> Str(file_path),
              removed |-> {Removal(file_path, "os.remove")}]

NoCall == [op |-> "none", arg |-> <<>>, out |-> <<>>, ret |-> Unset, removed |-> {}]
NotEncrypted == [k |-> 0, plain |-> <<>>]

FileInit ==
    /\ aes_key \in Keys
    /\ fsys = [p \in FPaths |-> NoFile]
    /\ enc_of = [p \in FPaths |-> NotEncrypted]
    /\ file_last = NoCall

\* an upload is saved at the audio path of an empty upload directory
Upload ==
    /\ \A p \in FPaths : fsys[p] = NoFile
    /\ \E n \in 0..MaxFileLen, fill \in FillBytes, stride \in {0, 1} :
        fsys' = [fsys EXCEPT ![AudioPath] = Bytes(Content(n, fill, stride))]
    /\ enc_of' = [enc_of EXCEPT ![AudioPath] = NotEncrypted]
    /\ file_last' = NoCall
    /\ UNCHANGED <<aes_key, not_file>>

\* a file that is not yet encrypted is encrypted next to itself
EncryptFile ==
    \E p \in FPaths, seed \in IvSeeds, fault \in {"none", "write"} :
        /\ EncryptedPath(p) \in FPaths
        /\ enc_of[p] = NotEncrypted
        /\ (fault # "none") => fsys[p] # NoFile
        /\ LET r == encrypt_file(fsys, aes_key, p, seed, fault)
           IN  /\ fsys' = r.fs
               /\ enc_of' = IF fsys[p] = NoFile THEN enc_of
                            ELSE [enc_of EXCEPT ![EncryptedPath(p)] =
                                     IF r.ret = Raised THEN NotEncrypted
                                     ELSE [k |-> aes_key, plain |-> fsys[p].v]]
               /\ file_last' = [op |-> "encrypt_file", arg |-> p,
                                out |-> EncryptedPath(p), ret |-> r.ret,
                                removed |-> {}]
        /\ UNCHANGED <<aes_key, not_file>>

DecryptFile ==
    \E p \in FPaths :
        /\ DecryptedPath(p) \in FPaths
        /\ LET r == decrypt_file(fsys, aes_key, p)
           IN  /\ fsys' = r.fs
               /\ enc_of' = IF r.ret = Raised THEN enc_of
                            ELSE [enc_of EXCEPT ![DecryptedPath(p)] = NotEncrypted]
               /\ file_last' = [op |-> "decrypt_file", arg |-> p,
                                out |-> DecryptedPath(p), ret |-> r.ret,
                                removed |-> {}]
        /\ UNCHANGED <<aes_key, not_file>>

\* an upload that was just saved is encrypted in place
EncryptAndReplace ==
    \E seed \in IvSeeds, fault \in {"none"} \cup ReplaceFaults :
        /\ enc_of[AudioPath] = NotEncrypted
        /\ fsys[AudioPath].tag # "random"
        /\ \A p \in FPaths \ {AudioPath} : fsys[p] = NoFile
        /\ (fault # "none") => fsys[AudioPath] # NoFile
        /\ LET r == encrypt_and_replace(fsys, aes_key, AudioPath, seed, fault)
               encrypted == [k |-> aes_key, plain |-> fsys[AudioPath].v]
           IN  /\ fsys' = r.fs
               /\ enc_of' =
                    IF fsys[AudioPath] = NoFile \/ fault = "write" THEN enc_of
                    ELSE IF fault \in {"remove", "rename"}
                    THEN [enc_of EXCEPT ![EncryptedPath(AudioPath)] = encrypted]
                    ELSE [enc_of EXCEPT ![AudioPath] = encrypted]
               /\ file_last' = [op |-> "encrypt_and_replace", arg |-> AudioPath,
                                out |-> AudioPath, ret |-> r.ret,
                                removed |-> r.removed]
        /\ UNCHANGED <<aes_key, not_file>>

\* ---- secure_delete_file on the bytes of the upload directory ----

\* range(3): the number of overwrite passes
OverwritePasses == 3

\* os.urandom(n): n bytes that are not the bytes of any upload
Random(n) == [tag |-> "random", v |-> [i \in 1..n |-> 0]]

\* the result of secure_delete_file, a Python bool
Bool(b) == [tag |-> "bool", v |-> <<b>>]

\* one system call on the file: open, write of n bytes, flush, fsync, remove
Event(op, n) == [op |-> op, n |-> n]

\* the steps of secure_delete_file at which an exception may be raised
PassSteps == {"open", "write", "flush", "fsync"}
EraseSteps == {"getsize", "remove"} \cup PassSteps

\* the loop of secure_delete_file from pass i on: [content, events, failed],
\* the exception (if any) being raised at step fault of pass number pass
RECURSIVE Overwrite(_, _, _, _, _, _)
Overwrite(content, file_size, i, fault, pass, events) ==
    LET here == pass = i
        opened == events \o <<Event("open", 0)>>
        written == opened \o <<Event("write", file_size)>>
        flushed == written \o <<Event("flush", 0)>>
        synced == flushed \o <<Event("fsync", 0)>>
    IN  IF i > OverwritePasses
        THEN [content |-> content, events |-> events, failed |-> FALSE]
        ELSE IF here /\ fault = "open"
        THEN [content |-> content, events |-> events, failed |-> TRUE]
        ELSE IF here /\ fault = "write"
        THEN [content |-> Bytes(<<>>), events |-> opened, failed |-> TRUE]
        ELSE IF here /\ fault = "flush"
        THEN [content |-> Random(file_size), events |-> written, failed |-> TRUE]
        ELSE IF here /\ fault = "fsync"
        THEN [content |-> Random(file_size), events |-> flushed, failed |-> TRUE]
        ELSE Overwrite(Random(file_size), file_size, i + 1, fault, pass, synced)

\* a secure delete that unlinks the file without overwriting it
secure_delete_path_unlink_only(fs, path, fault, pass) ==
    IF fs[path] = NoFile
    THEN [fs |-> fs, ret |-> Bool(FALSE), log |-> {"warning: file not found"},
          events |-> <<>>, removed |-> {}]
    ELSE [fs |-> [fs EXCEPT ![path] = NoFile], ret |-> Bool(TRUE),
          log |-> {"info: securely deleted file"},
          events |-> <<Event("remove", 0)>>,
          removed |-> {Removal(path, "secure_delete_file")}]

\* DataRetentionPolicy.secure_delete_file on a path of the upload directory:
\* [fs, ret, log, events, removed]
secure_delete_path(fs, path, fault, pass) ==
    LET failed(f, ev) == [fs |-> f, ret |-> Bool(FALSE),
                          log |-> {"error: secure delete failed"}, events |-> ev,
                          removed |-> {}]
        file_size == Len(fs[path].v)
        o == Overwrite(fs[path], file_size, 1, fault, pass, <<>>)
        overwritten == [fs EXCEPT ![path] = o.content]
    IN  IF fs[path] = NoFile
        THEN [fs |-> fs, ret |-> Bool(FALSE), log |-> {"warning: file not found"},
              events |-> <<>>, removed |-> {}]
        ELSE IF fault = "getsize" THEN failed(fs, <<>>)
        ELSE IF o.failed THEN failed(overwritten, o.events)
        ELSE IF fault = "remove" THEN failed(overwritten, o.events)
        ELSE [fs |-> [fs EXCEPT ![path] = NoFile], ret |-> Bool(TRUE),
              log |-> {"info: securely deleted file"},
              events |-> o.events \o <<Event("remove", 0)>>,
              removed |-> {Removal(path, "secure_delete_file")}]

\* a recording of any length is saved at the audio path of an empty upload
\* directory
SaveRecording ==
    /\ \A p \in FPaths : fsys[p] = NoFile
    /\ \E n \in 0..MaxFileLen :
        fsys' = [fsys EXCEPT ![AudioPath] = Bytes(Content(n, 1, 1))]
    /\ enc_of' = [enc_of EXCEPT ![AudioPath] = NotEncrypted]
    /\ file_last' = NoCall
    /\ UNCHANGED <<aes_key, not_file>>

\* a file of the upload directory is handed to secure_delete_file
SecureDeleteFile ==
    \E p \in FPaths, fault \in {"none"} \cup EraseSteps, pass \in 1..OverwritePasses :
        /\ (fault # "none") => fsys[p] # NoFile
        /\ (fault \notin PassSteps) => pass = 1
        /\ LET r == secure_delete_path(fsys, p, fault, pass)
           IN  /\ fsys' = r.fs
               /\ enc_of' = IF r.fs[p] = fsys[p] THEN enc_of
                            ELSE [enc_of EXCEPT ![p] = NotEncrypted]
               /\ file_last' = [op |-> "secure_delete_file", arg |-> p, out |-> p,
                                ret |-> r.ret, removed |-> r.removed,
                                events |-> r.events, log |-> r.log]
        /\ UNCHANGED <<aes_key, not_file>>

\* the process starts again with another FILE_ENCRYPTION_KEY
RestartWithFileKey ==
    \E k \in Keys \ {aes_key} :
        /\ aes_key' = k
        /\ file_last' = NoCall
        /\ UNCHANGED <<fsys, enc_of, not_file>>

\* the upload directory under the calls that take files off it
EraseNext ==
    \/ SaveRecording
    \/ EncryptAndReplace
    \/ SecureDeleteFile

FileNext ==
    \/ Upload
    \/ EncryptFile
    \/ DecryptFile
    \/ EncryptAndReplace
    \/ RestartWithFileKey

-----------------------------------------------------------------------------
(* The store: therapy_sessions and audit_log behind one connection, and    *)
(* the files the rows point to.                                            *)

MaxSessions == 2
MaxAudit == 2
\* the clock runs from 2 to MaxNow where it runs at all
MaxNow == 3

SessionIds == 1..MaxSessions
NullTime == -1
SystemUser == 0
Clinician == 1

\* a therapy_sessions row; ptr is file_path_encrypted: 0 is NULL, otherwise
\* the key the path was encrypted under
NoRow == [present |-> FALSE, ptr |-> 0, retention_until |-> NullTime]
Row(ptr, until) == [present |-> TRUE, ptr |-> ptr, retention_until |-> until]

\* state of a file: "absent", "phi" (the recording), "junk" (overwritten or
\* truncated, still on disk)
\* a session_tokens row; the table holds one login session
NoToken == [present |-> FALSE, is_valid |-> FALSE, last_activity |-> NullTime]
Token(valid, at) == [present |-> TRUE, is_valid |-> valid, last_activity |-> at]

EmptyDb == [therapy_sessions |-> [s \in SessionIds |-> NoRow], audit_log |-> <<>>,
            session_tokens |-> NoToken]

\* what can go wrong in one delete_session call, at most one per call
EraseFaults == {"open", "write", "remove"}
AuditFaults == {"audit_insert", "audit_commit"}
\* what can go wrong in one log_action call: reading the request context,
\* serialising or encrypting the details, the INSERT, the commit
LogFaults == {"request", "encrypt"} \cup AuditFaults
Faults == {"none", "select", "delete", "commit"} \cup EraseFaults \cup AuditFaults

\* DataRetentionPolicy.get_expired_sessions: the session ids, in rowid order
RECURSIVE ExpiredFrom(_, _, _)
ExpiredFrom(conn, t, s) ==
    IF s > MaxSessions THEN <<>>
    ELSE LET r == conn.therapy_sessions[s]
             rest == ExpiredFrom(conn, t, s + 1)
         IN  IF r.present /\ r.retention_until < t /\ r.retention_until # NullTime
             THEN <<s>> \o rest ELSE rest

get_expired_sessions(conn, t, query_fault) ==
    IF query_fault THEN <<>> ELSE ExpiredFrom(conn, t, 1)

\* self.retention_days, in ticks of the clock
retention_days == 2

\* DataRetentionPolicy.set_retention_date: [conn, disk, ret, log]; ret is the
\* retention date, NullTime where the call returns None. The UPDATE has no
\* condition on the value the row already holds, and a session id without a
\* row updates nothing without failing.
set_retention_date(conn, disk, t, session_id, fault) ==
    LET retention_date == t + retention_days
        failed(c) == [conn |-> c, disk |-> disk, ret |-> NullTime,
                      log |-> {"error: failed to set retention date"}]
        c2 == IF conn.therapy_sessions[session_id].present
              THEN [conn EXCEPT !.therapy_sessions[session_id].retention_until =
                                    retention_date]
              ELSE conn
    IN  IF fault = "update" THEN failed(conn)
        ELSE IF fault = "commit" THEN failed(c2)
        ELSE [conn |-> c2, disk |-> c2, ret |-> retention_date,
              log |-> {"info: set retention date"}]

\* DataRetentionPolicy.secure_delete_file: [files, ret, log]
secure_delete_file(fs, path, fault) ==
    IF fs[path] = "absent"
    THEN [files |-> fs, ret |-> FALSE, log |-> {"warning: file not found"}]
    ELSE IF fault = "open"
    THEN [files |-> fs, ret |-> FALSE, log |-> {"error: secure delete failed"}]
    ELSE IF fault \in {"write", "remove"}
    THEN [files |-> [fs EXCEPT ![path] = "junk"], ret |-> FALSE,
          log |-> {"error: secure delete failed"}]
    ELSE [files |-> [fs EXCEPT ![path] = "absent"], ret |-> TRUE,
          log |-> {"info: securely deleted file"}]

\* EncryptedDatabase.decrypt_field on a stored file pointer: the session's
\* path, or None when the pointer was written under another key
decrypt_pointer(k, ptr, sid) == IF ptr = k THEN sid ELSE 0

\* log_action writing over the trail instead of adding to it
log_action_overwriting(conn, disk, t, entry, fault) ==
    LET row == [entry EXCEPT !.id = 1, !.timestamp = t]
        c2  == [conn EXCEPT !.audit_log = <<row>>]
    IN  [conn |-> c2, disk |-> c2, raised |-> FALSE, log |-> {"info: audit"}]

\* log_action without its outer except clause: a failed commit reaches the
\* caller
log_action_propagating(conn, disk, t, entry, fault) ==
    LET row == [entry EXCEPT !.id = Len(conn.audit_log) + 1, !.timestamp = t]
        c2  == [conn EXCEPT !.audit_log = Append(@, row)]
    IN  IF fault = "audit_commit"
        THEN [conn |-> c2, disk |-> disk, raised |-> TRUE, log |-> {}]
        ELSE [conn |-> c2, disk |-> c2, raised |-> FALSE, log |-> {"info: audit"}]

\* AuditLogger.log_action: [conn, disk, raised, log]. The request context is
\* read in a try of its own whose except clause passes; everything else runs
\* in the outer try, whose except clause logs the error and does not raise.
\* The entry arrives with the placeholders id, timestamp and ip_address,
\* which the call fills in.
log_action(conn, disk, t, entry, fault) ==
    LET ip_address == IF fault = "request" THEN "NULL" ELSE "addr"
        caught == {"error: audit logging failed"}
    IN  IF fault \in {"encrypt", "audit_insert"}
        THEN [conn |-> conn, disk |-> disk, raised |-> FALSE, log |-> caught]
        ELSE LET row == [entry EXCEPT !.id = Len(conn.audit_log) + 1,
                                      !.timestamp = t, !.ip_address = ip_address]
                 c2  == [conn EXCEPT !.audit_log = Append(@, row)]
             IN  IF fault = "audit_commit"
                 THEN [conn |-> c2, disk |-> disk, raised |-> FALSE, log |-> caught]
                 ELSE [conn |-> c2, disk |-> c2, raised |-> FALSE,
                       log |-> {"info: audit"}]

\* AuditLogger.log_data_deletion
log_data_deletion(conn, disk, t, user_id, resource_id, has_cipher, fault) ==
    log_action(conn, disk, t,
               [id |-> 0, timestamp |-> 0, ip_address |-> "NULL", user_id |-> user_id,
                action |-> "delete_data", resource_type |-> "therapy_session",
                resource_id |-> resource_id, success |-> TRUE,
                details |-> [encrypted |-> has_cipher, json |-> "permanent_deletion"]],
               fault)

\* NULL in the user_id and resource_id columns of audit_log
NullId == -1

\* AuditLogger.log_phi_access, with the default action 'view'
log_phi_access(conn, disk, t, user_id, session_id, has_cipher, fault) ==
    log_action(conn, disk, t,
               [id |-> 0, timestamp |-> 0, ip_address |-> "NULL", user_id |-> user_id,
                action |-> "phi_view", resource_type |-> "therapy_session",
                resource_id |-> session_id, success |-> TRUE,
                details |-> [encrypted |-> has_cipher, json |-> "phi_accessed"]],
               fault)

\* AuditLogger.log_login: no user id, no resource; a reason only on failure
log_login(conn, disk, t, success, has_cipher, fault) ==
    log_action(conn, disk, t,
               [id |-> 0, timestamp |-> 0, ip_address |-> "NULL", user_id |-> NullId,
                action |-> "login", resource_type |-> "NULL",
                resource_id |-> NullId, success |-> success,
                details |-> IF success THEN [encrypted |-> FALSE, json |-> "null"]
                            ELSE [encrypted |-> has_cipher, json |-> "reason"]],
               fault)

\* AuditLogger.log_logout
log_logout(conn, disk, t, user_id, fault) ==
    log_action(conn, disk, t,
               [id |-> 0, timestamp |-> 0, ip_address |-> "NULL", user_id |-> user_id,
                action |-> "logout", resource_type |-> "NULL",
                resource_id |-> NullId, success |-> TRUE,
                details |-> [encrypted |-> FALSE, json |-> "null"]],
               fault)

\* AuditLogger.log_data_export
log_data_export(conn, disk, t, user_id, session_id, has_cipher, fault) ==
    log_action(conn, disk, t,
               [id |-> 0, timestamp |-> 0, ip_address |-> "NULL", user_id |-> user_id,
                action |-> "export_data", resource_type |-> "therapy_session",
                resource_id |-> session_id, success |-> TRUE,
                details |-> [encrypted |-> has_cipher, json |-> "export_format"]],
               fault)

\* ---- AuditLogger.get_audit_trail ----

\* limit=100, the default
DefaultLimit == 100

\* the arguments of a get_audit_trail call; None is NullId for the ids,
\* "NULL" for the action and NullTime for the dates
Query(user_id, resource_id, action, start_date, end_date, limit) ==
    [user_id |-> user_id, resource_id |-> resource_id, action |-> action,
     start_date |-> start_date, end_date |-> end_date, limit |-> limit]

\* 'if user_id:' and 'if resource_id:': None and 0 are both false
TruthyId(x) == x # NullId /\ x # 0

\* the WHERE clause get_audit_trail builds: a condition is added for an
\* argument only where the argument is true in Python
InWhere(row, q) ==
    /\ TruthyId(q.user_id) => row.user_id = q.user_id
    /\ TruthyId(q.resource_id) => row.resource_id = q.resource_id
    /\ (q.action # "NULL") => row.action = q.action
    /\ (q.start_date # NullTime) => row.timestamp >= q.start_date
    /\ (q.end_date # NullTime) => row.timestamp <= q.end_date

\* AuditLogger.get_audit_trail: the set of results the query may return.
\* ORDER BY timestamp DESC LIMIT ? fixes the order of two rows only where
\* their timestamps differ; among rows of one timestamp the database is free
\* in the order it returns them and in which of them the limit cuts off.
get_audit_trail(conn, q) ==
    LET rows == conn.audit_log
        selected == {i \in 1..Len(rows) : InWhere(rows[i], q)}
        n == Cardinality(selected)
        k == IF q.limit < n THEN q.limit ELSE n
        picks == {f \in [1..k -> selected] :
                    /\ \A a, b \in 1..k : a < b =>
                          /\ f[a] # f[b]
                          /\ rows[f[a]].timestamp >= rows[f[b]].timestamp
                    /\ \A m \in selected \ {f[a] : a \in 1..k} :
                          \A a \in 1..k : rows[f[a]].timestamp >= rows[m].timestamp}
    IN  {[a \in 1..k |-> rows[f[a]]] : f \in picks}

\* SessionTimeout.timeout_seconds, in ticks of the clock
timeout_seconds == 1

\* the instants of the clock in one second: datetime.now() is finer than the
\* whole seconds of CURRENT_TIMESTAMP
SubSeconds == 2

\* what a caller passes as last_activity: None, a datetime, or its ISO text
NoActivity == [kind |-> "none", sec |-> 0, frac |-> 0]
Datetime(sec, frac) == [kind |-> "datetime", sec |-> sec, frac |-> frac]
IsoString(sec, frac) == [kind |-> "str", sec |-> sec, frac |-> frac]

\* datetime.fromisoformat
fromisoformat(text) == Datetime(text.sec, text.frac)

\* a datetime as a number of instants
Instant(d) == d.sec * SubSeconds + d.frac

\* timedelta(seconds=n), in instants
timedelta(seconds) == seconds * SubSeconds

\* int(x) of a number of instants, in whole seconds: truncation towards zero
int(x) == IF x >= 0 THEN x \div SubSeconds ELSE -((-x) \div SubSeconds)

\* max(0, x)
max0(x) == IF x > 0 THEN x ELSE 0

\* SessionTimeout.update_activity: [conn, disk, log]
update_activity(conn, disk, t, fault) ==
    IF fault = "update"
    THEN [conn |-> conn, disk |-> disk, log |-> {"error: failed to update session activity"}]
    ELSE LET tk == conn.session_tokens
             c2 == IF tk.present /\ tk.is_valid
                   THEN [conn EXCEPT !.session_tokens.last_activity = t]
                   ELSE conn
         IN  IF fault = "commit"
             THEN [conn |-> c2, disk |-> disk,
                   log |-> {"error: failed to update session activity"}]
             ELSE [conn |-> c2, disk |-> c2, log |-> {}]

\* SessionTimeout.invalidate_expired_sessions with <= for < in its WHERE clause
invalidate_expired_sessions_inclusive(conn, disk, t, fault) ==
    IF fault = "update"
    THEN [conn |-> conn, disk |-> disk, ret |-> 0,
          log |-> {"error: failed to invalidate expired sessions"}]
    ELSE LET tk == conn.session_tokens
             timeout_threshold == Instant(t) - timedelta(timeout_seconds)
             hit == /\ tk.present
                    /\ tk.is_valid
                    /\ Instant(Datetime(tk.last_activity, 0)) <= timeout_threshold
             c2 == IF hit THEN [conn EXCEPT !.session_tokens.is_valid = FALSE]
                   ELSE conn
             count == IF hit THEN 1 ELSE 0
         IN  IF fault = "commit"
             THEN [conn |-> c2, disk |-> disk, ret |-> 0,
                   log |-> {"error: failed to invalidate expired sessions"}]
             ELSE [conn |-> c2, disk |-> c2, ret |-> count,
                   log |-> IF count > 0 THEN {"info: invalidated expired sessions"}
                           ELSE {}]

\* SessionTimeout.invalidate_expired_sessions at the instant t:
\* [conn, disk, ret, log]
invalidate_expired_sessions(conn, disk, t, fault) ==
    IF fault = "update"
    THEN [conn |-> conn, disk |-> disk, ret |-> 0,
          log |-> {"error: failed to invalidate expired sessions"}]
    ELSE LET tk == conn.session_tokens
             timeout_threshold == Instant(t) - timedelta(timeout_seconds)
             hit == /\ tk.present
                    /\ tk.is_valid
                    /\ Instant(Datetime(tk.last_activity, 0)) < timeout_threshold
             c2 == IF hit THEN [conn EXCEPT !.session_tokens.is_valid = FALSE]
                   ELSE conn
             count == IF hit THEN 1 ELSE 0
         IN  IF fault = "commit"
             THEN [conn |-> c2, disk |-> disk, ret |-> 0,
                   log |-> {"error: failed to invalidate expired sessions"}]
             ELSE [conn |-> c2, disk |-> c2, ret |-> count,
                   log |-> IF count > 0 THEN {"info: invalidated expired sessions"}
                           ELSE {}]

\* SessionTimeout.is_session_expired with <= for <
is_session_expired_inclusive(t, last_activity) ==
    IF last_activity.kind = "none"
    THEN TRUE
    ELSE LET la == IF last_activity.kind = "str" THEN fromisoformat(last_activity)
                   ELSE last_activity
             timeout_threshold == Instant(t) - timedelta(timeout_seconds)
         IN  Instant(la) <= timeout_threshold

\* SessionTimeout.is_session_expired at the instant t
is_session_expired(t, last_activity) ==
    IF last_activity.kind = "none"
    THEN TRUE
    ELSE LET la == IF last_activity.kind = "str" THEN fromisoformat(last_activity)
                   ELSE last_activity
             timeout_threshold == Instant(t) - timedelta(timeout_seconds)
         IN  Instant(la) < timeout_threshold

\* SessionTimeout.get_remaining_time without the clamp at zero
get_remaining_time_unclamped(t, last_activity) ==
    IF last_activity.kind = "none"
    THEN 0
    ELSE LET la == IF last_activity.kind = "str" THEN fromisoformat(last_activity)
                   ELSE last_activity
             elapsed == Instant(t) - Instant(la)
             remaining == timedelta(timeout_seconds) - elapsed
         IN  int(remaining)

\* SessionTimeout.get_remaining_time at the instant t, in whole seconds
get_remaining_time(t, last_activity) ==
    IF last_activity.kind = "none"
    THEN 0
    ELSE LET la == IF last_activity.kind = "str" THEN fromisoformat(last_activity)
                   ELSE last_activity
             elapsed == Instant(t) - Instant(la)
             remaining == max0(timedelta(timeout_seconds) - elapsed)
         IN  int(remaining)

\* a secret as a caller passes it: None, the empty string, or text
NoneArg == "None"
Secrets == {NoneArg, "", "SECRETA", "SECRETB", "not base32!"}

\* a token as a caller passes it: None, or a string of digits
TotpCodes == 4
NoneToken == [kind |-> "none", digits |-> <<>>]
Digits(d) == [kind |-> "str", digits |-> d]
Tokens == {NoneToken, Digits(<<>>)} \cup {Digits(<<c>>) : c \in 0..(TotpCodes - 1)}

\* base64.b32decode accepts the secret
IsBase32(secret) == secret \in {"SECRETA", "SECRETB"}

\* pyotp.TOTP(secret).at(counter): the code of one time step
totp_at(secret, counter) ==
    Digits(<<((IF secret = "SECRETA" THEN 1 ELSE 3) + counter) % TotpCodes>>)

\* pyotp.TOTP(secret).verify(token, valid_window=1) at the time step t
totp_verify(secret, token, t) ==
    \E i \in {-1, 0, 1} : token = totp_at(secret, t + i)

\* `not x' of Python for a secret and for a token
Falsy(x) == x = NoneArg \/ x = ""
FalsyToken(x) == x.kind = "none" \/ x.digits = <<>>

\* what can go wrong inside the try block of verify_token
VerifyFaults == {"verify"}

\* MFAManager.verify_token without its try block: [ret, raised, log]
verify_token_unguarded(secret, token, t, fault) ==
    IF Falsy(secret) \/ FalsyToken(token)
    THEN [ret |-> FALSE, raised |-> FALSE, log |-> {}]
    ELSE IF fault \in VerifyFaults \/ ~IsBase32(secret)
    THEN [ret |-> FALSE, raised |-> TRUE, log |-> {}]
    ELSE [ret |-> totp_verify(secret, token, t), raised |-> FALSE, log |-> {}]

\* MFAManager.verify_token: [ret, raised, log]
verify_token(secret, token, t, fault) ==
    IF Falsy(secret) \/ FalsyToken(token)
    THEN [ret |-> FALSE, raised |-> FALSE, log |-> {}]
    ELSE IF fault \in VerifyFaults \/ ~IsBase32(secret)
    THEN [ret |-> FALSE, raised |-> FALSE, log |-> {"error: MFA verification failed"}]
    ELSE [ret |-> totp_verify(secret, token, t), raised |-> FALSE, log |-> {}]

\* DataRetentionPolicy.delete_session: [conn, disk, files, ret, log]
delete_session(conn, disk, fs, k, has_cipher, t, sid, audit_logger, user_id, fault) ==
    LET row == conn.therapy_sessions[sid]
        failed(f, lg) == [conn |-> conn, disk |-> disk, files |-> f, ret |-> FALSE,
                          log |-> lg \cup {"error: failed to delete session"}]
    IN  IF fault = "select" THEN failed(fs, {})
        ELSE IF ~row.present
        THEN [conn |-> conn, disk |-> disk, files |-> fs, ret |-> FALSE,
              log |-> {"warning: session not found"}]
        ELSE
        LET file_path == IF row.ptr = 0 THEN 0
                         ELSE IF has_cipher THEN decrypt_pointer(k, row.ptr, sid)
                         ELSE sid
            undecryptable == row.ptr # 0 /\ file_path = 0
            erased == IF file_path # 0 THEN secure_delete_file(fs, file_path, fault)
                      ELSE [files |-> fs, ret |-> FALSE,
                            log |-> IF undecryptable THEN {"error: decryption failed"}
                                    ELSE {}]
            c2 == [conn EXCEPT !.therapy_sessions[sid] = NoRow]
        IN  IF fault = "delete" THEN failed(erased.files, erased.log)
            ELSE IF fault = "commit"
            THEN [conn |-> c2, disk |-> disk, files |-> erased.files, ret |-> FALSE,
                  log |-> erased.log \cup {"error: failed to delete session"}]
            ELSE LET a == IF audit_logger
                          THEN log_data_deletion(c2, c2, t, user_id, sid, has_cipher, fault)
                          ELSE [conn |-> c2, disk |-> c2, log |-> {}]
                 IN  [conn |-> a.conn, disk |-> a.disk, files |-> erased.files,
                      ret |-> TRUE,
                      log |-> erased.log \cup a.log \cup {"info: deleted session"}]

\* the loop of run_retention_cleanup over the expired sessions:
\* [conn, disk, files, deleted_count, log]
RECURSIVE SweepLoop(_, _, _, _, _, _, _, _, _, _)
SweepLoop(expired, i, conn, disk, fs, k, has_cipher, t, audit_logger, plan) ==
    IF i > Len(expired)
    THEN [conn |-> conn, disk |-> disk, files |-> fs, deleted_count |-> 0, log |-> {}]
    ELSE LET d == delete_session(conn, disk, fs, k, has_cipher, t, expired[i],
                                 audit_logger, SystemUser, plan[expired[i]])
             r == SweepLoop(expired, i + 1, d.conn, d.disk, d.files, k, has_cipher,
                            t, audit_logger, plan)
         IN  [conn |-> r.conn, disk |-> r.disk, files |-> r.files,
              deleted_count |-> (IF d.ret THEN 1 ELSE 0) + r.deleted_count,
              log |-> d.log \cup r.log]

\* run_retention_cleanup without its dry_run branch
run_retention_cleanup_always_live(conn, disk, fs, k, has_cipher, t, audit_logger, dry_run, query_fault, plan) ==
    LET expired_sessions == get_expired_sessions(conn, t, query_fault)
        full == [s \in SessionIds |-> IF s \in DOMAIN plan THEN plan[s] ELSE "none"]
        r == SweepLoop(expired_sessions, 1, conn, disk, fs, k, has_cipher, t,
                       audit_logger, full)
    IN  [conn |-> r.conn, disk |-> r.disk, files |-> r.files,
         ret |-> IF dry_run THEN 0 ELSE r.deleted_count, log |-> r.log]

\* DataRetentionPolicy.run_retention_cleanup: [conn, disk, files, ret, log]
run_retention_cleanup(conn, disk, fs, k, has_cipher, t, audit_logger, dry_run, query_fault, plan) ==
    LET expired_sessions == get_expired_sessions(conn, t, query_fault)
        untouched(lg) == [conn |-> conn, disk |-> disk, files |-> fs, ret |-> 0,
                          log |-> lg]
    IN  IF Len(expired_sessions) = 0 THEN untouched({"info: no expired sessions"})
        ELSE IF dry_run THEN untouched({"info: dry run"})
        ELSE LET r == SweepLoop(expired_sessions, 1, conn, disk, fs, k, has_cipher,
                                t, audit_logger, plan)
             IN  [conn |-> r.conn, disk |-> r.disk, files |-> r.files,
                  ret |-> r.deleted_count, log |-> r.log]

-----------------------------------------------------------------------------
(* Operations on the store *)

NoStoreCall == [op |-> "none", sid |-> 0, audit_logger |-> FALSE, ret |-> 0, log |-> {}]

\* no delete_session call is in progress; the reader has read nothing
Idle == [pc |-> "idle", sid |-> 0, file_path |-> 0, audit_logger |-> FALSE, log |-> {}]
NoObservation == [sid |-> 0, row |-> FALSE, file |-> "absent"]

StoreInit ==
    /\ now = 2
    /\ db_conn = EmptyDb
    /\ db_disk = EmptyDb
    /\ files = [s \in SessionIds |-> "absent"]
    /\ ingested = {}
    /\ last = NoStoreCall
    /\ deleter = Idle
    /\ observed = NoObservation
    /\ utc_offset = 0

\* whether a fault can occur in delete_session(sid): only at a step the call
\* reaches
Reaches(conn, fs, k, sid, audit_logger, fault) ==
    LET row == conn.therapy_sessions[sid]
    IN  \/ fault \in {"none", "select"}
        \/ fault \in {"delete", "commit"} /\ row.present
        \/ fault \in EraseFaults /\ row.present /\ row.ptr = k /\ fs[sid] # "absent"
        \/ fault \in AuditFaults /\ row.present /\ audit_logger

\* a session is ingested under the next session id: its row is inserted and
\* committed, its recording (if any) is on disk, its retention date is
\* already past, still ahead or not set
IngestSession ==
    \E sid \in SessionIds \ ingested, ptr \in {0} \cup Keys,
       until \in {NullTime, now - 1, now + 1} :
        /\ last.op = "none"
        /\ \A s \in SessionIds : s < sid => s \in ingested
        /\ LET c2 == [db_conn EXCEPT !.therapy_sessions[sid] = Row(ptr, until)]
           IN  db_conn' = c2 /\ db_disk' = c2
        /\ files' = [files EXCEPT ![sid] = IF ptr = 0 THEN "absent" ELSE "phi"]
        /\ ingested' = ingested \cup {sid}
        /\ last' = [op |-> "ingest", sid |-> sid, audit_logger |-> FALSE, ret |-> 0,
                   log |-> {}]
        /\ UNCHANGED <<now, not_store>>

\* a request handler deletes one session
DeleteSession ==
    \E sid \in SessionIds, audit_logger \in BOOLEAN, fault \in Faults :
        /\ last.op = "none"
        /\ audit_logger => Len(db_conn.audit_log) < MaxAudit
        /\ Reaches(db_conn, files, fernet_key, sid, audit_logger, fault)
        /\ LET d == delete_session(db_conn, db_disk, files, fernet_key, TRUE, now,
                                   sid, audit_logger, Clinician, fault)
           IN  /\ db_conn' = d.conn
               /\ db_disk' = d.disk
               /\ files' = d.files
               /\ last' = [op |-> "delete_session", sid |-> sid,
                           audit_logger |-> audit_logger, ret |-> d.ret,
                           log |-> d.log]
        /\ UNCHANGED <<now, ingested, not_store>>

\* the periodic retention sweep; plan names what goes wrong at each record
RunRetentionCleanup ==
    \E audit_logger \in BOOLEAN, dry_run \in BOOLEAN, query_fault \in BOOLEAN :
        LET expired == ExpiredFrom(db_conn, now, 1)
            live == ~dry_run /\ ~query_fault
        IN  /\ last.op = "none"
            /\ (audit_logger /\ live) =>
                  Len(db_conn.audit_log) + Len(expired) <= MaxAudit
            /\ \E plan \in [(IF live THEN {expired[i] : i \in 1..Len(expired)}
                                ELSE {}) -> Faults] :
                /\ \A s \in DOMAIN plan :
                      Reaches(db_conn, files, fernet_key, s, audit_logger, plan[s])
                /\ LET r == run_retention_cleanup(db_conn, db_disk, files, fernet_key,
                                                  TRUE, now, audit_logger, dry_run,
                                                  query_fault, plan)
                   IN  /\ db_conn' = r.conn
                       /\ db_disk' = r.disk
                       /\ files' = r.files
                       /\ last' = [op |-> IF dry_run THEN "cleanup_dry"
                                          ELSE "cleanup_live",
                                   sid |-> 0, audit_logger |-> audit_logger,
                                   ret |-> r.ret, log |-> r.log]
            /\ UNCHANGED <<now, ingested, not_store>>

\* the connection is closed and opened again: what was not committed is gone
Reconnect ==
    /\ last.op = "none"
    /\ db_conn # db_disk
    /\ db_conn' = db_disk
    /\ last' = [op |-> "reconnect", sid |-> 0, audit_logger |-> FALSE, ret |-> 0, log |-> {}]
    /\ UNCHANGED <<now, db_disk, files, ingested, not_store>>

\* CURRENT_TIMESTAMP of SQLite is UTC; datetime.now() is the local time `now'
CURRENT_TIMESTAMP == now - utc_offset

\* the row of a login session is inserted and committed: one just issued, or
\* one that has been idle for longer than the timeout
IssueToken ==
    \E at \in {CURRENT_TIMESTAMP, CURRENT_TIMESTAMP - timeout_seconds - 1} :
        /\ last.op = "none"
        /\ ~db_conn.session_tokens.present
        /\ LET c2 == [db_conn EXCEPT !.session_tokens = Token(TRUE, at)]
           IN  db_conn' = c2 /\ db_disk' = c2
        /\ last' = [op |-> "issue_token", sid |-> 0, audit_logger |-> FALSE, ret |-> 0, log |-> {}]
        /\ UNCHANGED <<now, files, ingested, not_store>>

\* a request of the login session arrives
UpdateActivity ==
    \E fault \in {"none", "update", "commit"} :
        /\ last.op = "none"
        /\ db_conn.session_tokens.present
        /\ LET r == update_activity(db_conn, db_disk, CURRENT_TIMESTAMP, fault)
           IN  /\ db_conn' = r.conn
               /\ db_disk' = r.disk
               /\ last' = [op |-> "update_activity", sid |-> 0,
                           audit_logger |-> FALSE, ret |-> 0, log |-> r.log]
        /\ UNCHANGED <<now, files, ingested, not_store>>

\* the periodic sweep over the login sessions
InvalidateExpiredSessions ==
    \E fault \in {"none", "update", "commit"}, frac \in 0..(SubSeconds - 1) :
        /\ last.op = "none"
        /\ LET r == invalidate_expired_sessions(db_conn, db_disk, Datetime(now, frac), fault)
           IN  /\ db_conn' = r.conn
               /\ db_disk' = r.disk
               /\ last' = [op |-> "invalidate_expired_sessions", sid |-> 0,
                           audit_logger |-> FALSE, ret |-> r.ret, log |-> r.log,
                           t |-> Datetime(now, frac)]
        /\ UNCHANGED <<now, files, ingested, not_store>>

\* a request checks the timeout of a login session at an instant of this
\* second, and asks how long it has left
CheckTimeout ==
    \E frac \in 0..(SubSeconds - 1),
       last_activity \in {NoActivity}
            \cup {Datetime(sec, f) : sec \in 0..now, f \in 0..(SubSeconds - 1)}
            \cup {IsoString(sec, 0) : sec \in 0..now} :
        /\ last.op = "none"
        /\ last' = [op |-> "check_timeout", sid |-> 0, audit_logger |-> FALSE,
                    ret |-> 0, log |-> {},
                    t |-> Datetime(now, frac), last_activity |-> last_activity,
                    expired |-> is_session_expired(Datetime(now, frac), last_activity),
                    remaining |-> get_remaining_time(Datetime(now, frac), last_activity)]
        /\ UNCHANGED <<now, db_conn, db_disk, files, ingested, not_store>>

\* a user submits a TOTP code at login
VerifyToken ==
    \E secret \in Secrets, token \in Tokens, fault \in {"none"} \cup VerifyFaults :
        /\ last.op = "none"
        /\ LET r == verify_token(secret, token, now, fault)
           IN  last' = [op |-> "verify_token", sid |-> 0, audit_logger |-> FALSE,
                        ret |-> r.ret, log |-> r.log, raised |-> r.raised,
                        secret |-> secret, token |-> token, fault |-> fault]
        /\ UNCHANGED <<now, db_conn, db_disk, files, ingested, not_store>>

\* a route records what a user did, through one of the wrappers
LogAction ==
    \E wrapper \in {"log_phi_access", "log_login", "log_logout", "log_data_export"},
       success \in BOOLEAN, fault \in {"none"} \cup AuditFaults :
        /\ last.op = "none"
        /\ Len(db_conn.audit_log) < MaxAudit
        /\ (wrapper # "log_login") => success
        /\ LET r == IF wrapper = "log_phi_access"
                    THEN log_phi_access(db_conn, db_disk, now, Clinician, 1, TRUE, fault)
                    ELSE IF wrapper = "log_login"
                    THEN log_login(db_conn, db_disk, now, success, TRUE, fault)
                    ELSE IF wrapper = "log_logout"
                    THEN log_logout(db_conn, db_disk, now, Clinician, fault)
                    ELSE log_data_export(db_conn, db_disk, now, Clinician, 1, TRUE, fault)
           IN  /\ db_conn' = r.conn
               /\ db_disk' = r.disk
               /\ last' = [op |-> wrapper, sid |-> 0, audit_logger |-> TRUE,
                           ret |-> 0, log |-> r.log]
        /\ UNCHANGED <<now, files, ingested, not_store>>

\* a caller records an action through log_action itself, as the audit_log
\* decorator does; the logger was built over an EncryptedDatabase
\* (has_cipher) or over an object that only carries the connection
LogActionDirect ==
    \E has_cipher \in BOOLEAN, has_details \in BOOLEAN, success \in BOOLEAN,
       fault \in {"none"} \cup LogFaults :
        /\ last.op = "none"
        /\ Len(db_conn.audit_log) < MaxAudit
        /\ (fault = "encrypt") => has_details
        /\ LET r == log_action(db_conn, db_disk, now,
                               [id |-> 0, timestamp |-> 0, ip_address |-> "NULL",
                                user_id |-> Clinician, action |-> "create_session",
                                resource_type |-> "therapy_session",
                                resource_id |-> 1, success |-> success,
                                details |-> IF has_details
                                            THEN [encrypted |-> has_cipher,
                                                  json |-> "details"]
                                            ELSE [encrypted |-> FALSE, json |-> "null"]],
                               fault)
           IN  /\ db_conn' = r.conn
               /\ db_disk' = r.disk
               /\ last' = [op |-> "log_action", sid |-> 0, audit_logger |-> TRUE,
                           ret |-> [raised |-> r.raised, fault |-> fault],
                           log |-> r.log]
        /\ UNCHANGED <<now, files, ingested, not_store>>

\* a second passes on the clock of the server and of the database
Tick ==
    /\ last.op = "none"
    /\ now < MaxNow
    /\ now' = now + 1
    /\ UNCHANGED <<db_conn, db_disk, files, ingested, last, not_store>>

\* a reviewer asks for the audit trail
GetAuditTrail ==
    \E user_id \in {NullId, SystemUser, Clinician}, resource_id \in {NullId, 1},
       action \in {"NULL", "delete_data"}, start_date \in {NullTime, now},
       end_date \in {NullTime, now - 1}, limit \in {1, DefaultLimit} :
        LET q == Query(user_id, resource_id, action, start_date, end_date, limit)
        IN  /\ last.op = "none"
            /\ \E result \in get_audit_trail(db_conn, q) :
                  last' = [op |-> "get_audit_trail", sid |-> 0,
                           audit_logger |-> FALSE, ret |-> result, log |-> {},
                           q |-> q]
            /\ UNCHANGED <<now, db_conn, db_disk, files, ingested, not_store>>

\* the caller has taken the result of the last call
Return ==
    /\ last.op # "none"
    /\ last' = NoStoreCall
    /\ UNCHANGED <<now, db_conn, db_disk, files, ingested, not_store>>

\* a caller sets the retention date of a session
SetRetentionDate ==
    \E sid \in SessionIds, fault \in {"none", "update", "commit"} :
        /\ last.op = "none"
        /\ LET r == set_retention_date(db_conn, db_disk, now, sid, fault)
           IN  /\ db_conn' = r.conn
               /\ db_disk' = r.disk
               /\ last' = [op |-> "set_retention_date", sid |-> sid,
                           audit_logger |-> FALSE, ret |-> r.ret, log |-> r.log]
        /\ UNCHANGED <<now, files, ingested, not_store>>

\* a caller asks for the sessions past their retention date
GetExpiredSessions ==
    \E query_fault \in BOOLEAN :
        /\ last.op = "none"
        /\ last' = [op |-> "get_expired_sessions", sid |-> 0, audit_logger |-> FALSE,
                    ret |-> get_expired_sessions(db_conn, now, query_fault),
                    log |-> IF query_fault
                            THEN {"error: failed to get expired sessions"} ELSE {}]
        /\ UNCHANGED <<now, db_conn, db_disk, files, ingested, not_store>>

RetentionNext ==
    \/ IngestSession
    \/ SetRetentionDate
    \/ GetExpiredSessions
    \/ Reconnect
    \/ Return

\* ---- delete_session statement by statement, with a concurrent reader ----

\* delete_session returns ret to its caller
Returned(ret, lg) ==
    /\ last' = [op |-> "delete_session", sid |-> deleter.sid,
                audit_logger |-> deleter.audit_logger, ret |-> ret,
                log |-> deleter.log \cup lg]
    /\ deleter' = Idle

\* the SELECT of the row and the decryption of its file pointer
DeleteSelect ==
    \E sid \in SessionIds, audit_logger \in BOOLEAN, fault \in {"none", "select"} :
        LET row == db_conn.therapy_sessions[sid]
            file_path == IF row.ptr = 0 THEN 0
                         ELSE decrypt_pointer(fernet_key, row.ptr, sid)
            call == [pc |-> "idle", sid |-> sid, file_path |-> file_path,
                     audit_logger |-> audit_logger, log |-> {}]
        IN  /\ last.op = "none"
            /\ deleter.pc = "idle"
            /\ IF fault = "select"
               THEN /\ last' = [op |-> "delete_session", sid |-> sid,
                                audit_logger |-> audit_logger, ret |-> FALSE,
                                log |-> {"error: failed to delete session"}]
                    /\ deleter' = Idle
               ELSE IF ~row.present
               THEN /\ last' = [op |-> "delete_session", sid |-> sid,
                                audit_logger |-> audit_logger, ret |-> FALSE,
                                log |-> {"warning: session not found"}]
                    /\ deleter' = Idle
               ELSE /\ deleter' = [call EXCEPT
                            !.pc = IF file_path # 0 THEN "erase" ELSE "delete",
                            !.log = IF row.ptr # 0 /\ file_path = 0
                                    THEN {"error: decryption failed"} ELSE {}]
                    /\ UNCHANGED last
            /\ UNCHANGED <<now, db_conn, db_disk, files, ingested, observed,
                           field_vars, file_vars, env_vars>>

\* the call of secure_delete_file, whose result is dropped
DeleteErase ==
    \E fault \in {"none"} \cup EraseFaults :
        /\ deleter.pc = "erase"
        /\ (fault # "none") => files[deleter.file_path] # "absent"
        /\ LET erased == secure_delete_file(files, deleter.file_path, fault)
           IN  /\ files' = erased.files
               /\ deleter' = [deleter EXCEPT !.pc = "delete", !.log = @ \cup erased.log]
        /\ UNCHANGED <<now, db_conn, db_disk, ingested, last, observed,
                       field_vars, file_vars, env_vars>>

\* the DELETE of the row, in the transaction of the connection
DeleteRow ==
    \E fault \in {"none", "delete"} :
        /\ deleter.pc = "delete"
        /\ IF fault = "delete"
           THEN /\ Returned(FALSE, {"error: failed to delete session"})
                /\ UNCHANGED db_conn
           ELSE /\ db_conn' = [db_conn EXCEPT !.therapy_sessions[deleter.sid] = NoRow]
                /\ deleter' = [deleter EXCEPT !.pc = "commit"]
                /\ UNCHANGED last
        /\ UNCHANGED <<now, db_disk, files, ingested, observed, field_vars, file_vars, env_vars>>

\* the commit
DeleteCommit ==
    \E fault \in {"none", "commit"} :
        /\ deleter.pc = "commit"
        /\ IF fault = "commit"
           THEN /\ Returned(FALSE, {"error: failed to delete session"})
                /\ UNCHANGED db_disk
           ELSE /\ db_disk' = db_conn
                /\ deleter' = [deleter EXCEPT !.pc = "audit"]
                /\ UNCHANGED last
        /\ UNCHANGED <<now, db_conn, files, ingested, observed, field_vars, file_vars, env_vars>>

\* the audit entry, if a logger was given, and the return of True
DeleteAudit ==
    \E fault \in {"none"} \cup AuditFaults :
        /\ deleter.pc = "audit"
        /\ (fault # "none") => deleter.audit_logger
        /\ deleter.audit_logger => Len(db_conn.audit_log) < MaxAudit
        /\ LET a == IF deleter.audit_logger
                    THEN log_data_deletion(db_conn, db_disk, now, Clinician,
                                           deleter.sid, TRUE, fault)
                    ELSE [conn |-> db_conn, disk |-> db_disk, log |-> {}]
           IN  /\ db_conn' = a.conn
               /\ db_disk' = a.disk
               /\ Returned(TRUE, a.log \cup {"info: deleted session"})
        /\ UNCHANGED <<now, files, ingested, observed, field_vars, file_vars, env_vars>>

\* another process looks a session up through a connection of its own and
\* stats its recording: it sees what is committed and what is on disk
ReadSession ==
    \E sid \in SessionIds :
        /\ observed' = [sid |-> sid, row |-> db_disk.therapy_sessions[sid].present,
                        file |-> files[sid]]
        /\ UNCHANGED <<store_vars, deleter, field_vars, file_vars, env_vars>>

\* every session has a recording, written under the key of the process
StepInit ==
    /\ now = 2
    /\ db_conn = [EmptyDb EXCEPT
                    !.therapy_sessions = [s \in SessionIds |-> Row(1, now - 1)]]
    /\ db_disk = db_conn
    /\ files = [s \in SessionIds |-> "phi"]
    /\ ingested = SessionIds
    /\ last = NoStoreCall
    /\ deleter = Idle
    /\ observed = NoObservation
    /\ utc_offset = 0

StepNext ==
    \/ DeleteSelect
    \/ DeleteErase
    \/ DeleteRow
    \/ DeleteCommit
    \/ DeleteAudit
    \/ ReadSession
    \/ Return

\* two callers of delete_session: one advances step by step, the other runs
\* a whole call between two of its steps
RaceNext ==
    \/ DeleteSelect
    \/ DeleteErase
    \/ DeleteRow
    \/ DeleteCommit
    \/ DeleteAudit
    \/ DeleteSession
    \/ Return

StoreNext ==
    \/ IngestSession
    \/ DeleteSession
    \/ RunRetentionCleanup
    \/ Reconnect
    \/ Return

\* a store that holds two sessions past their retention date, neither with a
\* recording
AuditSessions == {1, 2}

AuditInit ==
    /\ now = 2
    /\ db_conn = [EmptyDb EXCEPT
                    !.therapy_sessions = [s \in SessionIds |->
                        IF s \in AuditSessions THEN Row(0, now - 1) ELSE NoRow]]
    /\ db_disk = db_conn
    /\ files = [s \in SessionIds |-> "absent"]
    /\ ingested = SessionIds
    /\ last = NoStoreCall
    /\ deleter = Idle
    /\ observed = NoObservation
    /\ utc_offset = 0

TrailNext ==
    \/ LogAction
    \/ RunRetentionCleanup
    \/ GetAuditTrail
    \/ Tick
    \/ Return

MfaInit ==
    /\ now = 2
    /\ db_conn = EmptyDb
    /\ db_disk = EmptyDb
    /\ files = [s \in SessionIds |-> "absent"]
    /\ ingested = {}
    /\ last = NoStoreCall
    /\ deleter = Idle
    /\ observed = NoObservation
    /\ utc_offset \in {0, -2}

MfaNext ==
    \/ IssueToken
    \/ UpdateActivity
    \/ InvalidateExpiredSessions
    \/ CheckTimeout
    \/ VerifyToken
    \/ Reconnect
    \/ Tick
    \/ Return

LogNext ==
    \/ LogActionDirect
    \/ Reconnect
    \/ Return

AuditNext ==
    \/ LogAction
    \/ DeleteSession
    \/ RunRetentionCleanup
    \/ IssueToken
    \/ UpdateActivity
    \/ InvalidateExpiredSessions
    \/ Reconnect
    \/ Return

-----------------------------------------------------------------------------
(* Specifications *)

\* the field cipher alone, under either key
InitField == FieldInit /\ FileInit /\ aes_key = 1 /\ StoreInit
SpecField == InitField /\ [][FieldNext]_vars

\* the file cipher alone, under either key
InitFile == FieldInit /\ fernet_key = 1 /\ FileInit /\ StoreInit
SpecFile == InitFile /\ [][FileNext]_vars

\* the retention manager and the audit trail over the store
InitStore == FieldInit /\ fernet_key = 1 /\ FileInit /\ aes_key = 1 /\ StoreInit
SpecStore == InitStore /\ [][StoreNext]_vars

\* every component that writes through the connection of the audit trail
InitAudit == FieldInit /\ fernet_key = 1 /\ FileInit /\ aes_key = 1 /\ AuditInit
SpecAudit == InitAudit /\ [][AuditNext]_vars

\* the audit logger alone, over either kind of database object
InitMfa == FieldInit /\ fernet_key = 1 /\ FileInit /\ aes_key = 1 /\ MfaInit
SpecMfa == InitMfa /\ [][MfaNext]_vars

InitRace == FieldInit /\ fernet_key = 1 /\ FileInit /\ aes_key = 1 /\ StepInit
SpecRace == InitRace /\ [][RaceNext]_vars

InitLog == FieldInit /\ fernet_key = 1 /\ FileInit /\ aes_key = 1 /\ StoreInit
SpecLog == InitLog /\ [][LogNext]_vars

\* the audit trail written by route handlers and by the retention sweep,
\* and read back
InitTrail == FieldInit /\ fernet_key = 1 /\ FileInit /\ aes_key = 1 /\ AuditInit
SpecTrail == InitTrail /\ [][TrailNext]_vars

\* the retention dates of the sessions and the query over them
InitRetention == FieldInit /\ fernet_key = 1 /\ FileInit /\ aes_key = 1 /\ StoreInit
SpecRetention == InitRetention /\ [][RetentionNext]_vars

\* the calls that remove files, over the upload directory
InitErase == FieldInit /\ fernet_key = 1 /\ FileInit /\ aes_key = 1 /\ StoreInit
SpecErase == InitErase /\ [][EraseNext]_vars

\* one delete_session call at a time, statement by statement, while another
\* process reads
InitStep == FieldInit /\ fernet_key = 1 /\ FileInit /\ aes_key = 1 /\ StepInit
SpecStep == InitStep /\ [][StepNext]_vars

-----------------------------------------------------------------------------
(* Claims *)

\* C1: field cipher round trip. Whenever decrypt_field has been applied to
\* the text encrypt_field returned for a text value v, under the key it was
\* encrypted with, it returned exactly v.
C1_FieldRoundTrip ==
    (f_result # Unset /\ f_plain # None /\ f_skey = fernet_key /\ ~f_damaged)
        => f_result = f_plain

\* a two-character text with a non-ASCII character came back
C1_Witness ==
    /\ f_result # Unset /\ f_skey = fernet_key /\ ~f_damaged
    /\ f_plain = Str(<<233, 65>>)
    /\ f_result = Str(<<233, 65>>)

\* C2: decrypt_field applied to a text that was encrypted under another key,
\* or that is malformed, returns None (the value is unavailable), never a
\* plaintext and never an exception.
C2_ForeignOrMalformedIsUnavailable ==
    (f_result # Unset /\ f_stored # None /\ (f_skey # fernet_key \/ f_damaged))
        => f_result = None

\* what holds of decrypt_field instead: a text encrypted under another key is
\* unavailable, and a damaged one is unavailable or decodes to the token it
\* was made from; a wrong plaintext and an exception never come out
FieldNeverWrongPlaintext ==
    /\ f_result # Raised
    /\ (f_result # Unset /\ f_stored # None /\ f_skey # fernet_key) => f_result = None
    /\ (f_result # Unset /\ f_stored # None /\ f_damaged)
            => f_result \in {None, f_plain}

\* C3: file cipher round trip. Whenever decrypt_file has been applied to a
\* file encrypt_file wrote, under the key it was encrypted with, it returned
\* its output path and the file there is byte-equal to what was encrypted.
C3_FileRoundTrip ==
    (file_last.op = "decrypt_file" /\ enc_of[file_last.arg].k = aes_key)
        => /\ file_last.ret = Str(file_last.out)
           /\ fsys[file_last.out] = Bytes(enc_of[file_last.arg].plain)

\* a 16-byte file ending in the byte 16 went through encrypt_file and
\* decrypt_file, which wrote it back at the path of the original
C3_Witness ==
    /\ file_last.op = "decrypt_file"
    /\ file_last.arg = EncryptedPath(AudioPath)
    /\ file_last.ret = Str(AudioPath)
    /\ enc_of[file_last.arg] = [k |-> aes_key, plain |-> Content(BlockSize, 16, 0)]
    /\ fsys[AudioPath] = Bytes(Content(BlockSize, 16, 0))

CeilToBlock(n) == ((n + BlockSize - 1) \div BlockSize) * BlockSize

\* C4 as claimed: the file encrypt_file writes for n bytes of plaintext is
\* 16 bytes of IV plus the smallest multiple of 16 that is >= n.
C4_LengthIsIvPlusCeil ==
    (file_last.op = "encrypt_file" /\ file_last.ret # Raised)
        => Len(fsys[file_last.out].v)
               = BlockSize + CeilToBlock(Len(enc_of[file_last.out].plain))

\* C4 as amended: the file encrypt_file writes for n bytes of plaintext is
\* 16 bytes of IV plus the smallest multiple of 16 strictly greater than n
\* (PKCS7 always adds at least one byte of padding).
C4_LengthIsIvPlusPadded ==
    (file_last.op = "encrypt_file" /\ file_last.ret # Raised)
        => Len(fsys[file_last.out].v)
               = BlockSize + ((Len(enc_of[file_last.out].plain) \div BlockSize) + 1)
                                 * BlockSize

\* a plaintext of exactly two blocks was encrypted
C4_Witness ==
    /\ file_last.op = "encrypt_file" /\ file_last.ret # Raised
    /\ Len(enc_of[file_last.out].plain) = 2 * BlockSize
    /\ Len(fsys[file_last.out].v) = 4 * BlockSize


-----------------------------------------------------------------------------
(* Claims about the retention manager and the audit trail *)

IsExpired(conn, t, s) ==
    \E i \in 1..Len(ExpiredFrom(conn, t, 1)) : ExpiredFrom(conn, t, 1)[i] = s

\* the delete_data entries of the trail that reference session s
DeletionEntries(conn, s) ==
    {i \in 1..Len(conn.audit_log) :
        /\ conn.audit_log[i].action = "delete_data"
        /\ conn.audit_log[i].resource_id = s}

IsPrefix(a, b) == Len(a) <= Len(b) /\ \A i \in 1..Len(a) : b[i] = a[i]

\* C5: after a live run_retention_cleanup that reports every expired session
\* deleted, each session that was expired when the sweep started has no row
\* left, in the connection or on disk, and its recording is no longer on disk.
C5_ExpiredAreGoneAfterSweep ==
    [][(/\ last'.op = "cleanup_live"
        /\ last'.ret = Len(ExpiredFrom(db_conn, now, 1)))
       => \A s \in SessionIds : IsExpired(db_conn, now, s) =>
              /\ ~db_conn'.therapy_sessions[s].present
              /\ ~db_disk'.therapy_sessions[s].present
              /\ files'[s] = "absent"]_vars

\* C6: every session that delete_session deletes when it is given an audit
\* logger, called directly or by a live sweep, has exactly one delete_data
\* entry referencing it afterwards.
C6_ExactlyOneDeletionEntry ==
    [][(last'.op \in {"delete_session", "cleanup_live"} /\ last'.audit_logger)
       => \A s \in SessionIds :
              (/\ db_conn.therapy_sessions[s].present
               /\ ~db_conn'.therapy_sessions[s].present
               /\ ~db_disk'.therapy_sessions[s].present)
              => Cardinality(DeletionEntries(db_conn', s)) = 1]_vars

\* C7: run_retention_cleanup(dry_run=True) changes no session row, no file and
\* no audit entry, in the connection or on disk; get_expired_sessions returns
\* the same sessions after it as before; and the call returns 0.
C7_DryRunChangesNothing ==
    [][last'.op = "cleanup_dry"
       => /\ db_conn' = db_conn
          /\ db_disk' = db_disk
          /\ files' = files
          /\ ExpiredFrom(db_conn', now', 1) = ExpiredFrom(db_conn, now, 1)
          /\ last'.ret = 0]_vars

\* a dry run has returned while sessions past their retention date, with
\* recordings on disk, are in the store
C7_Witness ==
    /\ last.op = "cleanup_dry"
    /\ last.ret = 0
    /\ \E s \in SessionIds : IsExpired(db_conn, now, s) /\ files[s] = "phi"

\* C8: the number a live run_retention_cleanup returns is the number of
\* expired session rows that the sweep removed from the database on disk.
C8_ReturnsCountActuallyDeleted ==
    [][last'.op = "cleanup_live"
       => last'.ret = Cardinality({s \in SessionIds :
                          /\ IsExpired(db_conn, now, s)
                          /\ db_disk.therapy_sessions[s].present
                          /\ ~db_disk'.therapy_sessions[s].present})]_vars

\* C9: when delete_session has returned True for a session, no file of that
\* session is left on disk.
C9_NoSuccessWhileFileOnDisk ==
    (last.op = "delete_session" /\ last.ret = TRUE) => files[last.sid] = "absent"

\* C10: no step removes or changes a committed audit entry, and no call of any
\* component removes or changes an entry that the connection holds: the trail
\* before a step is a prefix of the trail after it. Only closing the
\* connection drops entries, those whose commit had failed.
C10_AuditLogAppendOnly ==
    [][/\ IsPrefix(db_disk.audit_log, db_disk'.audit_log)
       /\ (last'.op # "reconnect") => IsPrefix(db_conn.audit_log, db_conn'.audit_log)]_vars

\* a live sweep has deleted sessions and added its entries after an entry that
\* a route had written
C10_Witness ==
    /\ last.op = "cleanup_live"
    /\ last.audit_logger
    /\ last.ret > 0
    /\ Len(db_disk.audit_log) > 1
    /\ db_disk.audit_log[1].action # "delete_data"


\* the faults of log_action that keep the entry from being persisted
PersistFaults == {"encrypt", "audit_insert", "audit_commit"}

\* C11: log_action never propagates a failure. Whatever step of a log_action
\* call fails, the call returns normally; a failure that keeps the entry from
\* being persisted (serialising or encrypting the details, the INSERT, the
\* commit) is reported to the operational log. A failure to read the request
\* context is passed over in silence: the entry is written without an
\* address and nothing is reported.
C11_LogActionNeverPropagates ==
    last.op = "log_action" =>
        /\ ~last.ret.raised
        /\ last.ret.fault \in PersistFaults =>
              "error: audit logging failed" \in last.log

\* C11 as stated: every failing step, reading the request context
\* included, is reported to the operational log
C11_EveryFailureReported ==
    last.op = "log_action" =>
        /\ ~last.ret.raised
        /\ last.ret.fault # "none" =>
              "error: audit logging failed" \in last.log

\* a log_action call whose commit failed has returned normally with the
\* error in the operational log
C11_Witness ==
    /\ last.op = "log_action"
    /\ last.ret.fault = "audit_commit"
    /\ ~last.ret.raised
    /\ "error: audit logging failed" \in last.log
    /\ db_conn # db_disk

\* C12: every persisted audit entry with non-empty details holds them in
\* encrypted form only.
C12_DetailsOnlyEncrypted ==
    \A i \in 1..Len(db_disk.audit_log) :
        db_disk.audit_log[i].details.json # "null" =>
            db_disk.audit_log[i].details.encrypted

\* C13: audit before completion. Whenever delete_session has returned True,
\* the committed audit trail holds a delete_data entry that names the actor
\* and the session.
C13_AuditedBeforeComplete ==
    (last.op = "delete_session" /\ last.ret) =>
        \E i \in DeletionEntries(db_disk, last.sid) :
            db_disk.audit_log[i].user_id = Clinician

\* C14: a reader that runs concurrently with delete_session sees a session
\* either as it was before the deletion (row present, recording on disk) or
\* as it is after it (row absent, recording absent).
C14_ReaderSeesBeforeOrAfter ==
    observed.sid # 0 =>
        \/ observed.row /\ observed.file = "phi"
        \/ ~observed.row /\ observed.file = "absent"

\* the passes of a secure_delete_file call that were completed before the
\* file was unlinked: an open followed by a write of n bytes, a flush and an
\* fsync, with the remove later in the sequence
CompletedPasses(events, n) ==
    {i \in 1..(Len(events) - 3) :
        /\ events[i] = Event("open", 0)
        /\ events[i + 1] = Event("write", n)
        /\ events[i + 2] = Event("flush", 0)
        /\ events[i + 3] = Event("fsync", 0)
        /\ \E j \in (i + 4)..Len(events) : events[j] = Event("remove", 0)}

\* C15: secure_delete_file never raises. On a path that does not exist it
\* returns False and changes nothing; when it returns True the path no
\* longer exists, and before the unlink the full length of the file was
\* overwritten with random data in at least 3 passes, each flushed and
\* fsynced.
C15_SecureDeleteOverwritesThenUnlinks ==
    [][file_last'.op = "secure_delete_file"
       => LET path == file_last'.arg
          IN  /\ file_last'.ret \in {Bool(TRUE), Bool(FALSE)}
              /\ fsys[path] = NoFile =>
                    file_last'.ret = Bool(FALSE) /\ fsys' = fsys
              /\ file_last'.ret = Bool(TRUE) =>
                    /\ fsys'[path] = NoFile
                    /\ Cardinality(CompletedPasses(file_last'.events,
                                                   Len(fsys[path].v))) >= 3
                    /\ \A j \in 1..(Len(file_last'.events) - 1) :
                          file_last'.events[j].op # "remove"]_vars

\* secure_delete_file has returned True for a file of more than one block,
\* after three full passes and the unlink
C15_Witness ==
    /\ file_last.op = "secure_delete_file"
    /\ file_last.ret = Bool(TRUE)
    /\ fsys[file_last.arg] = NoFile
    /\ Len(file_last.events) = 4 * OverwritePasses + 1
    /\ file_last.events[2].n > BlockSize

\* C16: the Secure Eraser is the only removal mechanism. Every file a call
\* takes off the upload directory is taken off by secure_delete_file, never
\* by a plain filesystem delete.
C16_RemovedOnlyBySecureDelete ==
    \A r \in file_last.removed : r.by = "secure_delete_file"

\* C17: encrypt_and_replace is atomic for its caller. Whether the call
\* returns or raises, the path afterwards holds either the untouched original
\* or its complete encrypted form.
C17_ReplaceIsAllOrNothing ==
    [][(file_last'.op = "encrypt_and_replace" /\ fsys[file_last'.arg] # NoFile)
       => LET path == file_last'.arg
          IN  \/ fsys'[path] = fsys[path]
              \/ \E seed \in IvSeeds :
                    fsys'[path] = Bytes(EncryptBytes(aes_key, Iv(seed), fsys[path].v))]_vars

\* PKCS7 padding of a whole number of blocks: the last byte n is 1..16 and
\* the last n bytes all equal n
ValidPadding(p) ==
    /\ Len(p) > 0
    /\ Len(p) % BlockSize = 0
    /\ p[Len(p)] \in 1..BlockSize
    /\ \A j \in (Len(p) - p[Len(p)] + 1)..Len(p) : p[j] = p[Len(p)]

\* the file is shorter than the IV, or what comes out of the cipher under
\* key k does not end in valid padding
ShortOrBadPadding(k, data) ==
    \/ Len(data) < BlockSize
    \/ /\ (Len(data) - BlockSize) % BlockSize = 0
       /\ ~ValidPadding(CBCDecrypt(k, SubSeq(data, 1, BlockSize),
                                   SubSeq(data, BlockSize + 1, Len(data))).v)

\* C18: decrypt_file raises, and writes nothing, whenever its input is
\* shorter than the 16-byte IV or decrypts to data with invalid padding.
C18_BadInputRaisesAndWritesNothing ==
    [][(/\ file_last'.op = "decrypt_file"
        /\ fsys[file_last'.arg] # NoFile
        /\ ShortOrBadPadding(aes_key, fsys[file_last'.arg].v))
       => /\ file_last'.ret = Raised
          /\ fsys' = fsys]_vars

\* decrypt_file has raised on an encrypted file of two blocks that was
\* written under the other key, and its destination does not exist
C18_Witness ==
    /\ file_last.op = "decrypt_file"
    /\ file_last.ret = Raised
    /\ enc_of[file_last.arg].k \notin {0, aes_key}
    /\ Len(fsys[file_last.arg].v) = 2 * BlockSize
    /\ ShortOrBadPadding(aes_key, fsys[file_last.arg].v)
    /\ fsys[file_last.out] = NoFile

\* C19: retention_until is assigned once. Once the committed row of a
\* session holds a retention date, no step changes it for as long as the row
\* exists.
C19_RetentionDateAssignedOnce ==
    [][\A s \in SessionIds :
          (/\ db_disk.therapy_sessions[s].present
           /\ db_disk.therapy_sessions[s].retention_until # NullTime
           /\ db_disk'.therapy_sessions[s].present)
          => db_disk'.therapy_sessions[s].retention_until
                 = db_disk.therapy_sessions[s].retention_until]_vars

\* the sessions whose retention date is set and strictly earlier than t
PastRetention(conn, t) ==
    {s \in SessionIds :
        /\ conn.therapy_sessions[s].present
        /\ conn.therapy_sessions[s].retention_until # NullTime
        /\ conn.therapy_sessions[s].retention_until < t}

\* C20: get_expired_sessions returns exactly the sessions whose
\* retention_until is set and strictly earlier than now.
C20_ReturnsExactlyTheExpired ==
    last.op = "get_expired_sessions" =>
        {last.ret[i] : i \in 1..Len(last.ret)} = PastRetention(db_conn, now)

\* what does hold: a query that did not fail returns exactly those sessions,
\* each once
ExactWhenQuerySucceeds ==
    (last.op = "get_expired_sessions" /\ last.log = {}) =>
        /\ {last.ret[i] : i \in 1..Len(last.ret)} = PastRetention(db_conn, now)
        /\ Len(last.ret) = Cardinality(PastRetention(db_conn, now))

\* C21: the filters of get_audit_trail are conjunctive. Every entry it
\* returns matches every filter that was supplied: actor id (0, the system
\* actor, included), resource id, action, start and end of the date range.
C21_EveryFilterApplies ==
    last.op = "get_audit_trail" =>
        \A i \in 1..Len(last.ret) :
            /\ (last.q.user_id # NullId) => last.ret[i].user_id = last.q.user_id
            /\ (last.q.resource_id # NullId) =>
                  last.ret[i].resource_id = last.q.resource_id
            /\ (last.q.action # "NULL") => last.ret[i].action = last.q.action
            /\ (last.q.start_date # NullTime) =>
                  last.ret[i].timestamp >= last.q.start_date
            /\ (last.q.end_date # NullTime) =>
                  last.ret[i].timestamp <= last.q.end_date

\* C22: get_audit_trail returns at most limit entries, most recent first:
\* of two returned entries the one appended later (the higher id) comes
\* first, and the result is the limit most recently appended entries among
\* those the query selects.
C22_MostRecentFirst ==
    last.op = "get_audit_trail" =>
        LET rows == db_conn.audit_log
            selected == {i \in 1..Len(rows) : InWhere(rows[i], last.q)}
            returned == {last.ret[a].id : a \in 1..Len(last.ret)}
        IN  /\ Len(last.ret) <= last.q.limit
            /\ \A a, b \in 1..Len(last.ret) :
                  a < b => last.ret[a].id > last.ret[b].id
            /\ returned \subseteq selected
            /\ \A m \in selected \ returned :
                  /\ Len(last.ret) = last.q.limit
                  /\ \A r \in returned : r > m

\* a login session counts as expired: marked invalid, or idle for longer than
\* the timeout
Expired(tk, t) == ~tk.is_valid \/ tk.last_activity < t - timeout_seconds

\* C23: expiry of a login session is one-way: once its token is expired
\* (invalid, or last_activity older than the timeout window), no call of
\* update_activity or invalidate_expired_sessions makes it active again.
C23_ExpiryIsOneWay ==
    [][(/\ db_conn.session_tokens.present
        /\ Expired(db_conn.session_tokens, now)
        /\ last'.op \in {"update_activity", "invalidate_expired_sessions"})
       => Expired(db_conn'.session_tokens, now')]_vars

C25_ExpiredIffAbsentOrOlderThanWindow ==
    last.op = "check_timeout" =>
        LET la == last.last_activity
            age == (last.t.sec - la.sec) * SubSeconds + (last.t.frac - la.frac)
            window == timeout_seconds * SubSeconds
        IN  /\ last.expired = (la.kind = "none" \/ age > window)
            /\ (la.kind # "none" /\ age = window) => ~last.expired

\* the check was made exactly one window after last_activity, and on a
\* missing last_activity
C25_Witness ==
    /\ last.op = "check_timeout"
    /\ last.last_activity.kind = "str"
    /\ last.t.sec - last.last_activity.sec = timeout_seconds
    /\ last.t.frac = last.last_activity.frac
    /\ ~last.expired

\* the age of last_activity at the instant of the check, and the window, in
\* instants
Age(call) ==
    (call.t.sec - call.last_activity.sec) * SubSeconds
        + (call.t.frac - call.last_activity.frac)
Window == timeout_seconds * SubSeconds

\* C26 (as stated): get_remaining_time is greater than 0 whenever
\* is_session_expired is false, is 0 whenever is_session_expired is true, and
\* is never negative.
C26_PositiveIffNotExpired ==
    last.op = "check_timeout" =>
        /\ last.remaining >= 0
        /\ ~last.expired => last.remaining > 0
        /\ last.expired => last.remaining = 0

\* C26 (amended): get_remaining_time is never negative and is 0 whenever
\* is_session_expired is true; it is the number of whole seconds left of the
\* window, so it is greater than 0 exactly when last_activity is present and
\* at least one whole second of the window is left.
C26_WholeSecondsLeft ==
    last.op = "check_timeout" =>
        /\ last.remaining >= 0
        /\ last.expired => last.remaining = 0
        /\ (last.remaining > 0) =
               (last.last_activity.kind # "none" /\ Window - Age(last) >= SubSeconds)
        /\ (last.last_activity.kind # "none" /\ ~last.expired) =>
               /\ last.remaining * SubSeconds <= Window - Age(last)
               /\ Window - Age(last) < (last.remaining + 1) * SubSeconds

\* a session exactly one window old is not expired and has 0 seconds left
C26_Witness ==
    /\ last.op = "check_timeout"
    /\ last.last_activity.kind # "none"
    /\ Age(last) = Window
    /\ ~last.expired
    /\ last.remaining = 0

\* the login session is valid and older than the threshold of a sweep at the
\* instant t
Stale(tk, t) ==
    /\ tk.present
    /\ tk.is_valid
    /\ tk.last_activity * SubSeconds < Instant(t) - timeout_seconds * SubSeconds

\* C27: invalidate_expired_sessions sets is_valid false for every valid token
\* whose last_activity is older than the threshold (when the sweep reports
\* no error), leaves every other token unchanged, and returns exactly the
\* number of tokens it invalidated, so that an immediately repeated sweep
\* returns 0.
C27_SweepInvalidatesAndCounts ==
    [][last'.op = "invalidate_expired_sessions" =>
        LET tk == db_conn.session_tokens
            after == db_conn'.session_tokens
            invalidated == IF tk.present /\ tk.is_valid /\ ~after.is_valid
                           THEN 1 ELSE 0
        IN  /\ (Stale(tk, last'.t) /\ last'.log \subseteq {"info: invalidated expired sessions"})
                  => ~after.is_valid
            /\ ~Stale(tk, last'.t) => after = tk
            /\ last'.ret = invalidated]_vars

\* C28: verify_token never raises: it returns False when the secret or the
\* token is empty or missing, and a fault during the token check (a secret
\* that is not base32, or any other exception) yields False rather than an
\* exception.
C28_VerifyTokenNeverRaises ==
    last.op = "verify_token" =>
        /\ ~last.raised
        /\ (last.secret \in {NoneArg, ""} \/ last.token \in {NoneToken, Digits(<<>>)})
              => ~last.ret
        /\ (last.fault \in VerifyFaults \/ ~IsBase32(last.secret)) => ~last.ret

\* the token check failed on a secret that is not base32: False was returned
\* and the error logged
C28_Witness ==
    /\ last.op = "verify_token"
    /\ last.secret = "not base32!"
    /\ last.token = Digits(<<0>>)
    /\ ~last.ret
    /\ ~last.raised
    /\ last.log # {}

\* C29: when two callers run delete_session for the same session
\* concurrently, they do not both report success, and at most one deletion
\* audit entry is written for the session: checked at the return of the
\* call that was overlapped by a whole call of the other caller.
C29_OneDeleterSucceeds ==
    [][(/\ deleter.pc # "idle"
        /\ deleter'.pc = "idle"
        /\ last.op = "delete_session"
        /\ last.sid = deleter.sid)
       => /\ ~(last.ret /\ last'.ret)
          /\ Cardinality(DeletionEntries(db_conn', deleter.sid)) <= 1]_vars

\* C30: whenever delete_session returns False (session not found, or a fault
\* at any step including the commit), the session's row in the connection
\* and in the database, its file, and the audit log are as they were before
\* the call.
C30_FailedDeleteChangesNothing ==
    [][(last'.op = "delete_session" /\ ~last'.ret)
       => /\ db_conn' = db_conn
          /\ db_disk' = db_disk
          /\ files' = files]_vars

=============================================================================
